---- MODULE Spec2Model ----
(***************************************************************************)
(* Model of the jao-pdf pipeline scripts:                                  *)
(*   scripts/chunk_pdf.py             generate_pdf_chunks                  *)
(*   scripts/analyze_chunks_to_csv.py build_grid_from_table, main          *)
(*   scripts/merge_csvs.py            natural_key, pad_row, merge_csvs     *)
(* Each script is a sequential program; one specification per script.      *)
(***************************************************************************)
EXTENDS Integers, Sequences, FiniteSets, TLC

\* ------------------------------------------------------------- bounds ---
MaxPages == 4        \* largest source document, in pages
MaxPerChunk == 3     \* largest pages_per_chunk
MaxSize == 2         \* largest serialized file size, in abstract bytes
MaxDim == 1          \* largest declared row_count / column_count of a table
MaxCells == 2        \* largest number of cells of a table
MaxChunkFiles == 3   \* largest number of chunk_*.pdf files in the chunks directory
MaxStartFrom == 3    \* largest --start-from
MaxMaxChunks == 2    \* largest --max-chunks
MaxTables == 1       \* largest number of tables detected in one chunk
MaxCsvFiles == 2     \* largest number of *.csv files in the merge directory

\* ------------------------------------------------------------- state ----
VARIABLES
  \* chunk_pdf.py :: generate_pdf_chunks
  cpc,                  \* position: "idle", "loop", "done"
  total_pages,          \* len(reader.pages)
  pages_per_chunk,      \* parameter P
  max_chunk_size_bytes, \* parameter S
  page_num,             \* loop variable of `for page_num in range(total_pages)`
  current_pages,        \* accumulator of pages (page = its 0-based position)
  chunk_counter,
  chunks,               \* returned list of paths chunk_folder/chunk_<n>.pdf, as n
  legacy_chunks,        \* returned list of paths legacy_folder/chunk_<n>.pdf, as n
  chunk_folder,         \* files of chunk_folder: n -> [pages, size]
  legacy_folder,        \* files of legacy_folder: n -> [pages, size]
  tentative,            \* history of the tentative chunks written at line 43-52
  \* analyze_chunks_to_csv.py :: build_grid_from_table
  gpc,                  \* position: "idle", "loop", "done"
  table_row_count,      \* table.row_count, None or a number
  table_column_count,   \* table.column_count, None or a number
  row_count,
  col_count,
  grid,
  cells,                \* the cells of table.cells iterated so far
  \* analyze_chunks_to_csv.py :: main
  apc,                  \* position: "idle", "plan", "call", "sleep", "done", "empty"
  chunks_dir,           \* chunks_dir.glob("chunk_*.pdf") in enumeration order
  start_from,           \* args.start_from
  max_chunks,           \* args.max_chunks
  chunk_files,
  idx,                  \* enumerate(chunk_files, start=1)
  grand_total,
  events,               \* history of service calls and time.sleep calls
  \* merge_csvs.py :: merge_csvs
  mpc,                  \* "idle", "start", "scan", "write", "done", "error", "empty"
  csv_dir,              \* csv_dir.glob("*.csv") in enumeration order
  add_source_column,
  drop_empty_rows,
  csv_files,
  max_cols,
  file_i,               \* position of the `for csv_file in csv_files` loops
  row_i,                \* position of `for row in iter_csv_rows(csv_file)`
  wrote,
  out_file,             \* the file at out_path: [exists, rows]
  written_from,         \* history: the source file of each row written
  out_before,           \* history: the file at out_path when this merge began
  run,                  \* 1 for the first merge of the directory, 2 for the second
  first_run             \* history of the first merge: enumeration, outcome, output

chunkVars == <<cpc, total_pages, pages_per_chunk, max_chunk_size_bytes, page_num,
               current_pages, chunk_counter, chunks, legacy_chunks,
               chunk_folder, legacy_folder, tentative>>

gridVars == <<gpc, table_row_count, table_column_count, row_count, col_count,
              grid, cells>>

analyzeVars == <<apc, chunks_dir, start_from, max_chunks, chunk_files,
                 idx, grand_total, events>>

mergeVars == <<mpc, csv_dir, add_source_column, drop_empty_rows, csv_files,
               max_cols, file_i, row_i, wrote, out_file, written_from,
               out_before, run, first_run>>

vars == <<chunkVars, gridVars, analyzeVars, mergeVars>>

nonChunkVars == <<gridVars, analyzeVars, mergeVars>>
nonGridVars == <<chunkVars, analyzeVars, mergeVars>>
nonAnalyzeVars == <<chunkVars, gridVars, mergeVars>>
nonMergeVars == <<chunkVars, gridVars, analyzeVars>>

\* ------------------------------------------------------------ helpers ---
Range(s) == {s[i] : i \in 1..Len(s)}

EmptyDir == [n \in {} |-> 0]

\* A directory with file n (re)written: open("wb") replaces any older file.
WriteFile(dir, n, file) == (n :> file) @@ dir

\* shutil.move of a file out of a directory.
RemoveFile(dir, n) == [k \in DOMAIN dir \ {n} |-> dir[k]]

\* Python's None and a present value v.
None == <<>>
Some(v) == <<v>>

\* --------------------------- chunk_pdf.py --------------------------------

ChunkIdle ==
  /\ cpc = "idle"
  /\ total_pages = 0
  /\ pages_per_chunk = 1
  /\ max_chunk_size_bytes = 1
  /\ page_num = 0
  /\ current_pages = <<>>
  /\ chunk_counter = 1
  /\ chunks = <<>>
  /\ legacy_chunks = <<>>
  /\ chunk_folder = EmptyDir
  /\ legacy_folder = EmptyDir
  /\ tentative = <<>>

\* State after lines 25-36: folders made, lists empty, counter 1.
ChunkInit ==
  /\ cpc = "loop"
  /\ total_pages \in 0..MaxPages
  /\ pages_per_chunk \in 1..MaxPerChunk
  /\ max_chunk_size_bytes \in 1..MaxSize
  /\ page_num = 0
  /\ current_pages = <<>>
  /\ chunk_counter = 1
  /\ chunks = <<>>
  /\ legacy_chunks = <<>>
  /\ chunk_folder = EmptyDir
  /\ legacy_folder = EmptyDir
  /\ tentative = <<>>

\* The emit condition of line 42, on the accumulator after the append.
EmitNow(acc) ==
  Len(acc) = pages_per_chunk \/ page_num = total_pages - 1

\* The size test of line 54.
OversizedOffByOne(chunk_size) == chunk_size > max_chunk_size_bytes + 1
Oversized(chunk_size) == chunk_size > max_chunk_size_bytes

\* The counter after a split of n pages (line 75).
CounterAfterSplitByOne(counter, n) == counter + 1
CounterAfterSplit(counter, n) == counter + n

\* Loop iteration that only accumulates (line 39, condition of 42 false).
ChunkAccumulate ==
  /\ cpc = "loop"
  /\ page_num < total_pages
  /\ ~EmitNow(Append(current_pages, page_num))
  /\ current_pages' = Append(current_pages, page_num)
  /\ page_num' = page_num + 1
  /\ UNCHANGED <<cpc, total_pages, pages_per_chunk, max_chunk_size_bytes,
                 chunk_counter, chunks, legacy_chunks, chunk_folder,
                 legacy_folder, tentative>>
  /\ UNCHANGED nonChunkVars

\* Loop iteration that writes a tentative chunk of size chunk_size within the
\* ceiling and keeps it (lines 39-52, 76-85).
ChunkEmitAccepted(chunk_size) ==
  LET acc == Append(current_pages, page_num) IN
  /\ cpc = "loop"
  /\ page_num < total_pages
  /\ EmitNow(acc)
  /\ ~Oversized(chunk_size)
  /\ chunk_folder' = WriteFile(chunk_folder, chunk_counter,
                               [pages |-> acc, size |-> chunk_size])
  /\ tentative' = Append(tentative,
                    [num |-> chunk_counter, pages |-> acc, size |-> chunk_size])
  /\ chunks' = Append(chunks, chunk_counter)
  /\ chunk_counter' = chunk_counter + 1
  /\ current_pages' = <<>>
  /\ page_num' = page_num + 1
  /\ UNCHANGED <<cpc, total_pages, pages_per_chunk, max_chunk_size_bytes,
                 legacy_chunks, legacy_folder>>
  /\ UNCHANGED nonChunkVars

\* The folder after the sub-chunk loop of lines 61-72 has written the first k
\* single-page files; sizes[i] is the serialized size of the i-th page alone.
RECURSIVE WriteSubchunks(_, _, _, _, _)
WriteSubchunks(dir, first, pgs, sizes, k) ==
  IF k = 0 THEN dir
  ELSE WriteFile(WriteSubchunks(dir, first, pgs, sizes, k - 1),
                 first + (k - 1),
                 [pages |-> <<pgs[k]>>, size |-> sizes[k]])

\* subchunk_num = chunk_counter + i for i = 0..len-1 (line 62), in list order.
SubchunkNumsShifted(first, n) == [i \in 1..n |-> first + i]
SubchunkNums(first, n) == [i \in 1..n |-> first + (i - 1)]

\* Loop iteration whose tentative chunk is over the ceiling: move it to the
\* legacy folder, write one file per page, advance the counter by the run
\* length (lines 39-75, 85).  A one-page run is serialized twice from the same
\* page, so its sub-chunk has the size just measured.
ChunkEmitOversized(chunk_size, sizes) ==
  LET acc == Append(current_pages, page_num) IN
  /\ cpc = "loop"
  /\ page_num < total_pages
  /\ EmitNow(acc)
  /\ Oversized(chunk_size)
  /\ DOMAIN sizes = 1..Len(acc)
  /\ Len(acc) = 1 => sizes[1] = chunk_size
  /\ tentative' = Append(tentative,
                    [num |-> chunk_counter, pages |-> acc, size |-> chunk_size])
  /\ legacy_folder' = WriteFile(legacy_folder, chunk_counter,
                                [pages |-> acc, size |-> chunk_size])
  /\ legacy_chunks' = Append(legacy_chunks, chunk_counter)
  /\ chunk_folder' = WriteSubchunks(RemoveFile(chunk_folder, chunk_counter),
                                    chunk_counter, acc, sizes, Len(acc))
  /\ chunks' = chunks \o SubchunkNums(chunk_counter, Len(acc))
  /\ chunk_counter' = CounterAfterSplit(chunk_counter, Len(acc))
  /\ current_pages' = <<>>
  /\ page_num' = page_num + 1
  /\ UNCHANGED <<cpc, total_pages, pages_per_chunk, max_chunk_size_bytes>>
  /\ UNCHANGED nonChunkVars

\* Loop exhausted: summary and return (lines 87-88).
ChunkReturn ==
  /\ cpc = "loop"
  /\ page_num = total_pages
  /\ cpc' = "done"
  /\ UNCHANGED <<total_pages, pages_per_chunk, max_chunk_size_bytes, page_num,
                 current_pages, chunk_counter, chunks, legacy_chunks,
                 chunk_folder, legacy_folder, tentative>>
  /\ UNCHANGED nonChunkVars

ChunkNext ==
  \/ ChunkAccumulate
  \/ \E chunk_size \in 1..MaxSize : ChunkEmitAccepted(chunk_size)
  \/ \E chunk_size \in 1..MaxSize :
       \E n \in 1..MaxPerChunk :
         \E sizes \in [1..n -> 1..MaxSize] : ChunkEmitOversized(chunk_size, sizes)
  \/ ChunkReturn

\* --------------- analyze_chunks_to_csv.py: build_grid_from_table ---------

GridIdle ==
  /\ gpc = "idle"
  /\ table_row_count = None
  /\ table_column_count = None
  /\ row_count = 0
  /\ col_count = 0
  /\ grid = <<>>
  /\ cells = <<>>

\* Text is a sequence of characters; " " stands for any whitespace.
RECURSIVE LStrip(_)
LStrip(s) == IF s # <<>> /\ Head(s) = " " THEN LStrip(Tail(s)) ELSE s

RECURSIVE RStrip(_)
RStrip(s) ==
  IF s # <<>> /\ s[Len(s)] = " " THEN RStrip(SubSeq(s, 1, Len(s) - 1)) ELSE s

\* str.strip()
StripLeftOnly(s) == LStrip(s)
Strip(s) == RStrip(LStrip(s))

\* `x or 0` for a count that may be None (lines 29-30).
OrZero(x) == IF x = None \/ x = Some(0) THEN 0 ELSE x[1]

\* `getattr(cell, "content", "") or ""` (line 35).
OrEmpty(x) == IF x = None \/ x = Some(<<>>) THEN <<>> ELSE x[1]

\* The guard of line 36.
InGrid(r, c) ==
  /\ r # None
  /\ c # None
  /\ 0 <= r[1] /\ r[1] < row_count
  /\ 0 <= c[1] /\ c[1] < col_count

\* Indices and contents a cell of the service response may carry.
IndexValues == {None} \cup {Some(i) : i \in -1..MaxDim}
CountValues == {None} \cup {Some(i) : i \in 0..MaxDim}
ContentValues == {None, Some(<<" ", "a", " ", "b", " ">>)}
CellValues == [row_index : IndexValues, column_index : IndexValues,
               content : ContentValues]

\* Lines 29-31: the counts default to 0, the grid is R rows of C empty strings.
GridInit ==
  /\ gpc = "loop"
  /\ table_row_count \in CountValues
  /\ table_column_count \in CountValues
  /\ row_count = OrZero(table_row_count)
  /\ col_count = OrZero(table_column_count)
  /\ grid = [r \in 1..row_count |-> [c \in 1..col_count |-> <<>>]]
  /\ cells = <<>>

\* One iteration of the loop of line 32 for a cell that passes the guard:
\* grid[r][c] = content.strip() (positions are 1-based in the model).
GridPlaceCell(cell) ==
  /\ gpc = "loop"
  /\ Len(cells) < MaxCells
  /\ InGrid(cell.row_index, cell.column_index)
  /\ grid' = [grid EXCEPT ![cell.row_index[1] + 1][cell.column_index[1] + 1] =
                             Strip(OrEmpty(cell.content))]
  /\ cells' = Append(cells, cell)
  /\ UNCHANGED <<gpc, table_row_count, table_column_count, row_count, col_count>>
  /\ UNCHANGED nonGridVars

\* One iteration for a cell that fails the guard: nothing is written.
GridDropCell(cell) ==
  /\ gpc = "loop"
  /\ Len(cells) < MaxCells
  /\ ~InGrid(cell.row_index, cell.column_index)
  /\ cells' = Append(cells, cell)
  /\ UNCHANGED <<gpc, table_row_count, table_column_count, row_count, col_count,
                 grid>>
  /\ UNCHANGED nonGridVars

\* The cells are exhausted: return grid (line 38).
GridReturn ==
  /\ gpc = "loop"
  /\ gpc' = "done"
  /\ UNCHANGED <<table_row_count, table_column_count, row_count, col_count,
                 grid, cells>>
  /\ UNCHANGED nonGridVars

GridNext ==
  \/ \E cell \in CellValues : GridPlaceCell(cell)
  \/ \E cell \in CellValues : GridDropCell(cell)
  \/ GridReturn

\* ------------------- analyze_chunks_to_csv.py: main ----------------------

AnalyzeIdle ==
  /\ apc = "idle"
  /\ chunks_dir = <<>>
  /\ start_from = 1
  /\ max_chunks = 0
  /\ chunk_files = <<>>
  /\ idx = 1
  /\ grand_total = 0
  /\ events = <<>>

\* A file chunk_<mid>.pdf is named by the characters of <mid>.
DigitChars == <<"0", "1", "2", "3", "4", "5", "6", "7", "8", "9">>
IsDigit(ch) == \E d \in 1..10 : DigitChars[d] = ch
DigitValue(ch) == (CHOOSE d \in 1..10 : DigitChars[d] = ch) - 1

\* int() of a run of decimal digits.
RECURSIVE ParseInt(_)
ParseInt(ds) ==
  IF ds = <<>> THEN 0
  ELSE 10 * ParseInt(SubSeq(ds, 1, Len(ds) - 1)) + DigitValue(ds[Len(ds)])

\* re.search(r"chunk_(\d+)\.pdf$", name): the part between "chunk_" and
\* ".pdf" must be a non-empty run of digits, otherwise the key is 0.
natural_chunk_sort_key(mid) ==
  IF mid # <<>> /\ \A k \in 1..Len(mid) : IsDigit(mid[k])
    THEN ParseInt(mid) ELSE 0

\* sorted(..., key=natural_chunk_sort_key) (line 124): ascending by key and
\* stable, so item i lands after every item with a smaller key and every
\* earlier item with the same key.
ChunkFileRank(items, i) ==
  1 + Cardinality({j \in 1..Len(items) :
        \/ natural_chunk_sort_key(items[j]) < natural_chunk_sort_key(items[i])
        \/ /\ natural_chunk_sort_key(items[j]) = natural_chunk_sort_key(items[i])
           /\ j < i})

SortChunkFilesUnsorted(items) == items
SortChunkFiles(items) ==
  [p \in 1..Len(items) |->
     items[CHOOSE i \in 1..Len(items) : ChunkFileRank(items, i) = p]]

\* The list comprehension of line 126.
RECURSIVE FilterStartFrom(_, _)
FilterStartFrom(items, from) ==
  IF items = <<>> THEN <<>>
  ELSE (IF natural_chunk_sort_key(Head(items)) >= from
          THEN <<Head(items)>> ELSE <<>>) \o FilterStartFrom(Tail(items), from)

\* Lines 132-133: a slice when max_chunks is positive, otherwise no limit.
LimitChunks(items, limit) ==
  IF limit # 0 /\ limit > 0
    THEN SubSeq(items, 1, IF limit < Len(items) THEN limit ELSE Len(items))
    ELSE items

\* Names the chunks directory may hold: chunk_1, chunk_2, chunk_10, chunk_02
\* and chunk_x (no numeric key).
ChunkNames == {<<"1">>, <<"2">>, <<"1", "0">>, <<"0", "2">>, <<"x">>}

\* Every enumeration order of every set of at most MaxChunkFiles names.
Enumerations(names, maxLen) ==
  {e \in UNION {[1..n -> names] : n \in 0..maxLen} :
     \A i \in 1..Len(e) : \A j \in 1..Len(e) : i # j => e[i] # e[j]}

\* State at line 124: arguments parsed, client made, directory exists.
AnalyzeInit ==
  /\ apc = "plan"
  /\ chunks_dir \in Enumerations(ChunkNames, MaxChunkFiles)
  /\ start_from \in 0..MaxStartFrom
  /\ max_chunks \in 0..MaxMaxChunks
  /\ chunk_files = <<>>
  /\ idx = 1
  /\ grand_total = 0
  /\ events = <<>>

\* Lines 124-130: sort, filter, and return early when nothing is left.
AnalyzeNoChunks ==
  /\ apc = "plan"
  /\ FilterStartFrom(SortChunkFiles(chunks_dir), start_from) = <<>>
  /\ chunk_files' = <<>>
  /\ apc' = "empty"
  /\ UNCHANGED <<chunks_dir, start_from, max_chunks, idx, grand_total,
                 events>>
  /\ UNCHANGED nonAnalyzeVars

\* Lines 124-138: sort, filter, limit, and enter the loop.
AnalyzePlan ==
  /\ apc = "plan"
  /\ FilterStartFrom(SortChunkFiles(chunks_dir), start_from) # <<>>
  /\ chunk_files' = LimitChunks(
                      FilterStartFrom(SortChunkFiles(chunks_dir), start_from),
                      max_chunks)
  /\ apc' = "call"
  /\ UNCHANGED <<chunks_dir, start_from, max_chunks, idx, grand_total,
                 events>>
  /\ UNCHANGED nonAnalyzeVars

\* Lines 141-148: the call returns total_tables tables.
AnalyzeCallOk(total_tables) ==
  /\ apc = "call"
  /\ idx <= Len(chunk_files)
  /\ events' = Append(events, [kind |-> "call", file |-> chunk_files[idx],
                               ok |-> TRUE])
  /\ grand_total' = grand_total + total_tables
  /\ apc' = "sleep"
  /\ UNCHANGED <<chunks_dir, start_from, max_chunks, chunk_files, idx>>
  /\ UNCHANGED nonAnalyzeVars

\* Lines 141-150: the call raises; the error is printed and swallowed.
AnalyzeCallFail ==
  /\ apc = "call"
  /\ idx <= Len(chunk_files)
  /\ events' = Append(events, [kind |-> "call", file |-> chunk_files[idx],
                               ok |-> FALSE])
  /\ apc' = "sleep"
  /\ UNCHANGED <<chunks_dir, start_from, max_chunks, chunk_files, idx,
                 grand_total>>
  /\ UNCHANGED nonAnalyzeVars

\* time.sleep(max(0.0, delay)) of line 151, then the next iteration; the
\* call is made whatever the delay argument is.
AnalyzeSleep ==
  /\ apc = "sleep"
  /\ events' = Append(events, [kind |-> "sleep", file |-> chunk_files[idx],
                               ok |-> TRUE])
  /\ idx' = idx + 1
  /\ apc' = "call"
  /\ UNCHANGED <<chunks_dir, start_from, max_chunks, chunk_files,
                 grand_total>>
  /\ UNCHANGED nonAnalyzeVars

\* The loop is exhausted: the summary of line 153.
AnalyzeDone ==
  /\ apc = "call"
  /\ idx > Len(chunk_files)
  /\ apc' = "done"
  /\ UNCHANGED <<chunks_dir, start_from, max_chunks, chunk_files, idx,
                 grand_total, events>>
  /\ UNCHANGED nonAnalyzeVars

\* A step of the loop of lines 139-153.
AnalyzeLoopStep ==
  \/ \E total_tables \in 0..MaxTables : AnalyzeCallOk(total_tables)
  \/ AnalyzeCallFail
  \/ AnalyzeSleep
  \/ AnalyzeDone

AnalyzeNext ==
  \/ AnalyzeNoChunks
  \/ AnalyzePlan
  \/ AnalyzeLoopStep

\* ----------------------------- merge_csvs.py -----------------------------

NoFile == [exists |-> FALSE, rows |-> <<>>]
NoRun == [dir |-> <<>>, pc |-> "none", out |-> NoFile]

MergeIdle ==
  /\ mpc = "idle"
  /\ csv_dir = <<>>
  /\ add_source_column = TRUE
  /\ drop_empty_rows = TRUE
  /\ csv_files = <<>>
  /\ max_cols = 0
  /\ file_i = 1
  /\ row_i = 1
  /\ wrote = 0
  /\ out_file = NoFile
  /\ written_from = <<>>
  /\ out_before = NoFile
  /\ run = 1
  /\ first_run = NoRun

\* str(n) for n >= 0.
RECURSIVE FormatInt(_)
FormatInt(n) ==
  IF n < 10 THEN <<DigitChars[n + 1]>>
  ELSE FormatInt(n \div 10) \o <<DigitChars[(n % 10) + 1]>>

CsvExt == <<".", "c", "s", "v">>

\* f"{pdf_path.stem}_table_{i}.csv" for the chunk file chunk_<c>.pdf
\* (analyze_chunks_to_csv.py line 69).
CsvName(c, i) ==
  <<"c", "h", "u", "n", "k", "_">> \o FormatInt(c) \o
  <<"_", "t", "a", "b", "l", "e", "_">> \o FormatInt(i) \o CsvExt

\* The longest run of digits that ends the text.
RECURSIVE TrailingDigits(_)
TrailingDigits(text) ==
  IF text # <<>> /\ IsDigit(text[Len(text)])
    THEN TrailingDigits(SubSeq(text, 1, Len(text) - 1)) \o <<text[Len(text)]>>
    ELSE <<>>

\* re.search(r"(\d+)(?=\.csv$)", p.name): the digit run right before ".csv";
\* 0 when there is none.
natural_key(name) ==
  LET stem == SubSeq(name, 1, Len(name) - Len(CsvExt))
      digits == TrailingDigits(stem)
  IN IF digits = <<>> THEN 0 ELSE ParseInt(digits)

\* sorted(..., key=natural_key) (line 47): ascending by key and stable.
CsvFileRank(items, i) ==
  1 + Cardinality({j \in 1..Len(items) :
        \/ natural_key(items[j].name) < natural_key(items[i].name)
        \/ /\ natural_key(items[j].name) = natural_key(items[i].name)
           /\ j < i})

SortCsvFilesUnsorted(items) == items
SortCsvFiles(items) ==
  [p \in 1..Len(items) |->
     items[CHOOSE i \in 1..Len(items) : CsvFileRank(items, i) = p]]

\* is_empty_row: every cell is empty after strip.
IsEmptyRowAnyCell(row) == \E k \in 1..Len(row) : Strip(row[k]) = <<>>
is_empty_row(row) == \A k \in 1..Len(row) : Strip(row[k]) = <<>>

\* pad_row: pad with "" up to width, or cut to width.
PadRowUnpadded(row, width) == SubSeq(row, 1, IF Len(row) < width THEN Len(row) ELSE width)
pad_row(row, width) ==
  IF Len(row) < width
    THEN row \o [k \in 1..(width - Len(row)) |-> <<>>]
    ELSE SubSeq(row, 1, width)

\* max(max_cols, len(row)) over the rows of one file (lines 55-56).
RECURSIVE WidthAfter(_, _)
WidthAfter(width, rows) ==
  IF rows = <<>> THEN width
  ELSE WidthAfter(IF Len(Head(rows)) > width THEN Len(Head(rows)) ELSE width,
                  Tail(rows))

\* iter_csv_rows raises while the pre-scan reads this file: csv.reader fails
\* on the malformed part after yielding the rows before it.
ScanRaisesNever(file) == FALSE
ScanRaises(file) == file.bad

\* Cell texts: "", " ", "x", "y".
TextE == <<>>
TextB == <<" ">>
TextX == <<"x">>
TextY == <<"y">>

\* What a *.csv file of the directory may hold: the rows csv.reader yields,
\* and whether reading raises after them.
CsvContents ==
  { [rows |-> <<>>, bad |-> FALSE],
    [rows |-> << <<TextX, TextB>>, <<>>, <<TextY, TextX, TextE>> >>, bad |-> FALSE],
    [rows |-> << <<TextB, TextE, TextB, TextB>>, <<TextX>> >>, bad |-> FALSE],
    [rows |-> << <<TextX>> >>, bad |-> TRUE] }

\* Names the directory may hold: chunk_2_table_1.csv, chunk_10_table_1.csv,
\* and notes.csv and misc.csv, which carry no numeric key.
CsvNames ==
  { CsvName(2, 1), CsvName(10, 1),
    <<"n", "o", "t", "e", "s">> \o CsvExt, <<"m", "i", "s", "c">> \o CsvExt }

CsvFilesOf(names) ==
  {f \in [name : names, rows : {c.rows : c \in CsvContents}, bad : BOOLEAN] :
     [rows |-> f.rows, bad |-> f.bad] \in CsvContents}

\* Every directory of at most maxLen files with different names, in every
\* enumeration order.
CsvDirs(maxLen) ==
  {e \in UNION {[1..n -> CsvFilesOf(CsvNames)] : n \in 0..maxLen} :
     \A i \in 1..Len(e) : \A j \in 1..Len(e) : i # j => e[i].name # e[j].name}

\* The same files in any enumeration order.
Reenumerations(dir) ==
  {e \in [1..Len(dir) -> Range(dir)] :
     \A i \in 1..Len(e) : \A j \in 1..Len(e) : i # j => e[i] # e[j]}

\* A file left at out_path by an earlier, unrelated merge.
OldFile == [exists |-> TRUE, rows |-> << <<TextX>> >>]

\* Entry of merge_csvs: out_path is outside csv_dir; it may exist already.
MergeInit ==
  /\ mpc = "start"
  /\ csv_dir \in CsvDirs(MaxCsvFiles)
  /\ add_source_column \in BOOLEAN
  /\ drop_empty_rows \in BOOLEAN
  /\ csv_files = <<>>
  /\ max_cols = 0
  /\ file_i = 1
  /\ row_i = 1
  /\ wrote = 0
  /\ out_file \in {NoFile, OldFile}
  /\ written_from = <<>>
  /\ out_before = out_file
  /\ run = 1
  /\ first_run = NoRun

\* Lines 47-50: no CSV found, return 0.
MergeNoFiles ==
  /\ mpc = "start"
  /\ SortCsvFiles(csv_dir) = <<>>
  /\ csv_files' = <<>>
  /\ mpc' = "empty"
  /\ UNCHANGED <<csv_dir, add_source_column, drop_empty_rows, max_cols, file_i,
                 row_i, wrote, out_file, written_from, out_before, run,
                 first_run>>
  /\ UNCHANGED nonMergeVars

\* Lines 47-53: the sorted list, max_cols = 0.
MergeSort ==
  /\ mpc = "start"
  /\ SortCsvFiles(csv_dir) # <<>>
  /\ csv_files' = SortCsvFiles(csv_dir)
  /\ max_cols' = 0
  /\ file_i' = 1
  /\ mpc' = "scan"
  /\ UNCHANGED <<csv_dir, add_source_column, drop_empty_rows, row_i, wrote,
                 out_file, written_from, out_before, run,
                 first_run>>
  /\ UNCHANGED nonMergeVars

\* Lines 54-56 for one file that reads cleanly.
MergeScanFile ==
  /\ mpc = "scan"
  /\ file_i <= Len(csv_files)
  /\ ~ScanRaises(csv_files[file_i])
  /\ max_cols' = WidthAfter(max_cols, csv_files[file_i].rows)
  /\ file_i' = file_i + 1
  /\ UNCHANGED <<mpc, csv_dir, add_source_column, drop_empty_rows, csv_files,
                 row_i, wrote, out_file, written_from, out_before, run,
                 first_run>>
  /\ UNCHANGED nonMergeVars

\* Lines 54-56 for a malformed file: the error leaves merge_csvs.
MergeScanRaise ==
  /\ mpc = "scan"
  /\ file_i <= Len(csv_files)
  /\ ScanRaises(csv_files[file_i])
  /\ max_cols' = WidthAfter(max_cols, csv_files[file_i].rows)
  /\ mpc' = "error"
  /\ UNCHANGED <<csv_dir, add_source_column, drop_empty_rows, csv_files, file_i,
                 row_i, wrote, out_file, written_from, out_before, run,
                 first_run>>
  /\ UNCHANGED nonMergeVars

\* Lines 58-64: the pre-scan is complete; out_path is opened with "w", which
\* creates it or empties it.
MergeOpenOut ==
  /\ mpc = "scan"
  /\ file_i > Len(csv_files)
  /\ out_file' = [exists |-> TRUE, rows |-> <<>>]
  /\ written_from' = <<>>
  /\ wrote' = 0
  /\ file_i' = 1
  /\ row_i' = 1
  /\ mpc' = "write"
  /\ UNCHANGED <<csv_dir, add_source_column, drop_empty_rows, csv_files,
                 max_cols, out_before, run, first_run>>
  /\ UNCHANGED nonMergeVars

\* The row the write pass is at, when the file has one there.
AtRow ==
  /\ mpc = "write"
  /\ file_i <= Len(csv_files)
  /\ row_i <= Len(csv_files[file_i].rows)

\* Lines 67-69: a blank row is skipped.
MergeDropRow ==
  /\ AtRow
  /\ drop_empty_rows /\ is_empty_row(csv_files[file_i].rows[row_i])
  /\ row_i' = row_i + 1
  /\ UNCHANGED <<mpc, csv_dir, add_source_column, drop_empty_rows, csv_files,
                 max_cols, file_i, wrote, out_file, written_from, out_before, run,
                 first_run>>
  /\ UNCHANGED nonMergeVars

\* Lines 67-75: a row is normalized and written.
MergeWriteRow ==
  /\ AtRow
  /\ ~(drop_empty_rows /\ is_empty_row(csv_files[file_i].rows[row_i]))
  /\ LET normalized == pad_row(csv_files[file_i].rows[row_i], max_cols)
         line == IF add_source_column
                   THEN <<csv_files[file_i].name>> \o normalized
                   ELSE normalized
     IN out_file' = [out_file EXCEPT !.rows = Append(@, line)]
  /\ written_from' = Append(written_from, csv_files[file_i].name)
  /\ wrote' = wrote + 1
  /\ row_i' = row_i + 1
  /\ UNCHANGED <<mpc, csv_dir, add_source_column, drop_empty_rows, csv_files,
                 max_cols, file_i, out_before, run, first_run>>
  /\ UNCHANGED nonMergeVars

\* Line 67 when the reader has no further row: the next file, or the reader's
\* error leaving merge_csvs with the output as written so far.
MergeEndOfFile ==
  /\ mpc = "write"
  /\ file_i <= Len(csv_files)
  /\ row_i > Len(csv_files[file_i].rows)
  /\ IF csv_files[file_i].bad
       THEN mpc' = "error" /\ UNCHANGED <<file_i, row_i>>
       ELSE mpc' = mpc /\ file_i' = file_i + 1 /\ row_i' = 1
  /\ UNCHANGED <<csv_dir, add_source_column, drop_empty_rows, csv_files,
                 max_cols, wrote, out_file, written_from, out_before, run,
                 first_run>>
  /\ UNCHANGED nonMergeVars

\* Lines 77-78: every file is written; return wrote.
MergeReturn ==
  /\ mpc = "write"
  /\ file_i > Len(csv_files)
  /\ mpc' = "done"
  /\ UNCHANGED <<csv_dir, add_source_column, drop_empty_rows, csv_files,
                 max_cols, file_i, row_i, wrote, out_file, written_from,
                 out_before, run, first_run>>
  /\ UNCHANGED nonMergeVars

\* merge_csvs is called a second time on the same directory with the same
\* toggles; the directory may enumerate its files in another order.
MergeAgain(enumeration) ==
  /\ mpc \in {"done", "error", "empty"}
  /\ run = 1
  /\ enumeration \in Reenumerations(csv_dir)
  /\ first_run' = [dir |-> csv_dir, pc |-> mpc, out |-> out_file]
  /\ run' = 2
  /\ csv_dir' = enumeration
  /\ csv_files' = <<>>
  /\ max_cols' = 0
  /\ file_i' = 1
  /\ row_i' = 1
  /\ wrote' = 0
  /\ written_from' = <<>>
  /\ out_before' = out_file
  /\ mpc' = "start"
  /\ UNCHANGED <<add_source_column, drop_empty_rows, out_file>>
  /\ UNCHANGED nonMergeVars

MergeNext ==
  \/ MergeNoFiles
  \/ MergeSort
  \/ MergeScanFile
  \/ MergeScanRaise
  \/ MergeOpenOut
  \/ MergeDropRow
  \/ MergeWriteRow
  \/ MergeEndOfFile
  \/ MergeReturn
  \/ \E enumeration \in Reenumerations(csv_dir) : MergeAgain(enumeration)

\* -------------------------- specifications -------------------------------

\* Each script runs on its own; the state of the other scripts stays idle.
InitChunk == ChunkInit /\ GridIdle /\ AnalyzeIdle /\ MergeIdle

InitGrid == GridInit /\ ChunkIdle /\ AnalyzeIdle /\ MergeIdle

InitAnalyze == AnalyzeInit /\ ChunkIdle /\ GridIdle /\ MergeIdle

InitMerge == MergeInit /\ ChunkIdle /\ GridIdle /\ AnalyzeIdle

SpecChunk == InitChunk /\ [][ChunkNext]_vars

SpecGrid == InitGrid /\ [][GridNext]_vars

SpecMerge == InitMerge /\ [][MergeNext]_vars

\* The driver is one sequential process and every service call returns or
\* raises, so a loop that has been entered always takes its next step.
SpecAnalyze == InitAnalyze /\ [][AnalyzeNext]_vars /\ WF_vars(AnalyzeLoopStep)

\* ---------------------------------------------- chunk_pdf.py: properties ---
\* The pages of the files the returned primary paths name, in list order.
RECURSIVE PagesOfChunks(_)
PagesOfChunks(k) ==
  IF k = 0 THEN <<>>
  ELSE PagesOfChunks(k - 1) \o
       (IF chunks[k] \in DOMAIN chunk_folder
          THEN chunk_folder[chunks[k]].pages ELSE <<>>)

SourcePages == [i \in 1..total_pages |-> i - 1]

AscendingNumbers ==
  \A i \in 1..Len(chunks) : \A j \in 1..Len(chunks) :
     i < j => chunks[i] < chunks[j]

\* C1: when generate_pdf_chunks has returned, the returned primary chunks
\* carry strictly ascending chunk numbers, each names a file of the chunk
\* folder, and their pages concatenated in chunk-number order are exactly
\* the source pages 0..N-1, each once and in order.
C1_PageCoverage ==
  cpc = "done" =>
    /\ AscendingNumbers
    /\ \A i \in 1..Len(chunks) : chunks[i] \in DOMAIN chunk_folder
    /\ PagesOfChunks(Len(chunks)) = SourcePages

\* A finished run that had both an accepted multi-page chunk and a split one.
C1_Witness ==
  /\ cpc = "done"
  /\ total_pages = MaxPages
  /\ legacy_chunks # <<>>
  /\ Len(chunks) > Len(legacy_chunks)
  /\ \E i \in 1..Len(chunks) : Len(chunk_folder[chunks[i]].pages) > 1

\* A tentative chunk r appears in the primary output: some returned primary
\* path names a file with r's pages.
AppearsInPrimary(r) ==
  \E i \in 1..Len(chunks) :
     /\ chunks[i] \in DOMAIN chunk_folder
     /\ chunk_folder[chunks[i]].pages = r.pages

AppearsInLegacy(r) ==
  \E i \in 1..Len(legacy_chunks) :
     /\ legacy_chunks[i] = r.num
     /\ r.num \in DOMAIN legacy_folder
     /\ legacy_folder[r.num].pages = r.pages

\* Exactly Len(r.pages) primary chunks, one per page of r, at the consecutive
\* numbers r.num, r.num + 1, ...
ReplacedBySinglePages(r) ==
  /\ \A j \in 1..Len(r.pages) :
        /\ Cardinality({i \in 1..Len(chunks) : chunks[i] = r.num + (j - 1)}) = 1
        /\ (r.num + (j - 1)) \in DOMAIN chunk_folder
        /\ chunk_folder[r.num + (j - 1)].pages = <<r.pages[j]>>
  /\ \A i \in 1..Len(chunks) :
        (/\ chunks[i] \in DOMAIN chunk_folder
         /\ \E q \in Range(chunk_folder[chunks[i]].pages) : q \in Range(r.pages))
          => chunks[i] \in r.num..(r.num + Len(r.pages) - 1)

OversizedRuns == {r \in Range(tentative) : r.size > max_chunk_size_bytes}

\* C2 as stated: every oversized run, of any length, never appears in the
\* primary output, appears in the legacy output, and is replaced by its
\* single pages at consecutive numbers.
C2_AsStated ==
  \A r \in OversizedRuns :
     /\ ~AppearsInPrimary(r)
     /\ AppearsInLegacy(r)
     /\ ReplacedBySinglePages(r)

\* C2 (amended): every oversized run appears in the legacy output and is
\* replaced by exactly its page count of single-page chunks at consecutive
\* numbers starting at its own number; a run of two or more pages never
\* appears in the primary output, while a one-page run is re-emitted
\* unchanged under the same number.
C2_OversizedReplaced ==
  \A r \in OversizedRuns :
     /\ AppearsInLegacy(r)
     /\ ReplacedBySinglePages(r)
     /\ Len(r.pages) >= 2 => ~AppearsInPrimary(r)
     /\ Len(r.pages) = 1 => AppearsInPrimary(r)

\* An oversized run of several pages with later chunks shifted, and an
\* oversized one-page run.
C2_Witness ==
  /\ cpc = "done"
  /\ \E r \in OversizedRuns :
        /\ Len(r.pages) >= 2
        /\ \E i \in 1..Len(chunks) : chunks[i] > r.num + Len(r.pages) - 1
  /\ \E r \in OversizedRuns : Len(r.pages) = 1

\* C3 as stated: every primary chunk is within the ceiling.
C3_AsStated ==
  \A i \in 1..Len(chunks) :
     /\ chunks[i] \in DOMAIN chunk_folder
     /\ chunk_folder[chunks[i]].size <= max_chunk_size_bytes

\* C3 (amended): every primary chunk is within the ceiling unless it is a
\* single page produced by splitting a run recorded in the legacy output;
\* in particular every primary chunk of two or more pages is within it.
C3_SizeBound ==
  \A i \in 1..Len(chunks) :
     chunks[i] \in DOMAIN chunk_folder =>
     LET file == chunk_folder[chunks[i]] IN
       \/ file.size <= max_chunk_size_bytes
       \/ /\ Len(file.pages) = 1
          /\ \E j \in 1..Len(legacy_chunks) :
                file.pages[1] \in Range(legacy_folder[legacy_chunks[j]].pages)

\* A finished run with a multi-page chunk kept at exactly the ceiling.
C3_Witness ==
  /\ cpc = "done"
  /\ legacy_chunks # <<>>
  /\ \E i \in 1..Len(chunks) :
        /\ Len(chunk_folder[chunks[i]].pages) >= 2
        /\ chunk_folder[chunks[i]].size = max_chunk_size_bytes


\* ------------------------------------ build_grid_from_table: properties ---
\* The text between the first and the last non-whitespace character.
Trimmed(s) ==
  LET solid == {k \in 1..Len(s) : s[k] # " "} IN
    IF solid = {} THEN <<>>
    ELSE SubSeq(s, CHOOSE k \in solid : \A m \in solid : k <= m,
                   CHOOSE k \in solid : \A m \in solid : k >= m)

\* The cells iterated so far whose indices are exactly (r, c), 0-based.
CellsAt(r, c) ==
  {k \in 1..Len(cells) :
     cells[k].row_index = Some(r) /\ cells[k].column_index = Some(c)}

LastOf(S) == CHOOSE k \in S : \A m \in S : k >= m

\* C9: at every point of build_grid_from_table the grid has exactly R rows
\* of C columns, and position (r, c) holds the trimmed text of the last cell
\* iterated so far whose indices are (r, c), or the empty string when there
\* is none; cells with a missing, negative or out-of-range index therefore
\* change no position.
C9_GridContents ==
  gpc \in {"loop", "done"} =>
    /\ row_count = (IF table_row_count = None THEN 0 ELSE table_row_count[1])
    /\ col_count = (IF table_column_count = None THEN 0 ELSE table_column_count[1])
    /\ Len(grid) = row_count
    /\ \A r \in 1..Len(grid) :
         /\ Len(grid[r]) = col_count
         /\ \A c \in 1..Len(grid[r]) :
              grid[r][c] =
                (IF CellsAt(r - 1, c - 1) = {} THEN <<>>
                 ELSE LET cell == cells[LastOf(CellsAt(r - 1, c - 1))] IN
                        IF cell.content = None THEN <<>>
                        ELSE Trimmed(cell.content[1]))

\* A returned grid where a position was written with text and a later cell
\* had an out-of-range index.
C9_Witness ==
  /\ gpc = "done"
  /\ row_count >= 1 /\ col_count >= 1
  /\ Len(cells) = 2
  /\ cells[1].row_index = Some(0) /\ cells[1].column_index = Some(0)
  /\ cells[2].row_index = Some(row_count) /\ cells[2].column_index = Some(0)
  /\ grid[1][1] = <<"a", " ", "b">>

\* ------------------------------------------ analysis driver: properties ---
\* The files of the directory whose numeric key is at least start_from.
Eligible == {f \in Range(chunks_dir) : natural_chunk_sort_key(f) >= start_from}

CallEvents == {k \in 1..Len(events) : events[k].kind = "call"}

\* The calls so far are made for pairwise different eligible files, in
\* non-decreasing key order, each file no later than any eligible file with a
\* larger key, and never more than a positive max_chunks of them.
CallsInOrder ==
  /\ \A k \in CallEvents : events[k].file \in Eligible
  /\ \A k \in CallEvents : \A m \in CallEvents :
       k < m => /\ events[k].file # events[m].file
                /\ natural_chunk_sort_key(events[k].file)
                     <= natural_chunk_sort_key(events[m].file)
  /\ \A k \in CallEvents : \A f \in Eligible :
       natural_chunk_sort_key(f) < natural_chunk_sort_key(events[k].file)
         => \E m \in CallEvents : m < k /\ events[m].file = f
  /\ max_chunks > 0 => Cardinality(CallEvents) <= max_chunks

\* Calls and delays alternate, starting with a call: every call, failed or
\* not, is followed by one delay before the next call.
Paced ==
  /\ \A k \in 1..Len(events) :
       events[k].kind = (IF k % 2 = 1 THEN "call" ELSE "sleep")
  /\ apc = "sleep" <=> Len(events) % 2 = 1

\* At the summary every selected file has been submitted.
AllSubmitted ==
  apc = "done" =>
    Cardinality(CallEvents) =
      (IF max_chunks > 0 /\ max_chunks < Cardinality(Eligible)
         THEN max_chunks ELSE Cardinality(Eligible))

\* C8: in the main loop the selected chunks (key >= start-from; the first
\* max-chunks of them when max-chunks is positive, all of them otherwise) are
\* each submitted once in ascending key order, every call is followed by one
\* delay before the next call whether it failed or not, and once the loop is
\* entered the run reaches its final summary with every selected chunk
\* submitted.
C8_DriverLoop ==
  /\ [](CallsInOrder /\ Paced /\ AllSubmitted)
  /\ (apc \in {"call", "sleep"}) ~> (apc = "done")

\* A finished run, limited by max-chunks, whose first call failed and whose
\* second call was still made, with chunk_10 enumerated before chunk_2 and
\* chunk_02 sharing the key of chunk_2.
C8_Witness ==
  /\ apc = "done"
  /\ Len(events) = 4
  /\ ~events[1].ok
  /\ events[3].ok
  /\ events[1].file = <<"2">>
  /\ events[3].file = <<"0", "2">>
  /\ chunks_dir[1] = <<"1", "0">>
  /\ max_chunks = 2
  /\ Cardinality(Eligible) = 3

\* ------------------------------------------------ merge_csvs: properties ---
InDir(name) == \E k \in 1..Len(csv_dir) : csv_dir[k].name = name

\* C4 as stated: for two artifacts of different chunk numbers, every row of
\* the one with the smaller chunk number is written before any row of the
\* other, whatever the enumeration order.
C4_AsStated ==
  \A c1 \in {2, 10} : \A c2 \in {2, 10} :
    (c1 < c2 /\ InDir(CsvName(c1, 1)) /\ InDir(CsvName(c2, 1))) =>
      \A i \in 1..Len(written_from) : \A j \in 1..Len(written_from) :
        (written_from[i] = CsvName(c1, 1) /\ written_from[j] = CsvName(c2, 1))
          => i < j

\* The width W: the largest row length over all rows of all artifacts.
AllRowLengths ==
  UNION {{Len(csv_dir[k].rows[r]) : r \in 1..Len(csv_dir[k].rows)} :
           k \in 1..Len(csv_dir)}

GlobalWidth ==
  IF AllRowLengths = {} THEN 0
  ELSE CHOOSE w \in AllRowLengths : \A v \in AllRowLengths : v <= w

\* The rows this merge has written to out_path.
MergedRows == IF mpc \in {"write", "done"} THEN out_file.rows ELSE <<>>

\* C5: every row merge_csvs writes has exactly W cells, plus one when
\* add_source_column is set, W being the largest row length over all rows of
\* all input artifacts, blank rows included.
C5_RowWidth ==
  \A i \in 1..Len(MergedRows) :
     Len(MergedRows[i]) = GlobalWidth + (IF add_source_column THEN 1 ELSE 0)

\* A finished merge that dropped a blank row which alone has the width W, and
\* padded a shorter row.
C5_Witness ==
  /\ mpc = "done"
  /\ drop_empty_rows
  /\ GlobalWidth = 4
  /\ Len(out_file.rows) >= 2
  /\ \A k \in 1..Len(csv_dir) : \A r \in 1..Len(csv_dir[k].rows) :
       Len(csv_dir[k].rows[r]) = 4 => is_empty_row(csv_dir[k].rows[r])

\* Two enumerations of the same files agree on the order of the files that
\* share an ordering key.
TiesInSameOrder(d, e) ==
  \A i \in 1..Len(d) : \A j \in 1..Len(d) :
    (i < j /\ natural_key(d[i].name) = natural_key(d[j].name)) =>
      \E m \in 1..Len(e) : \E n \in 1..Len(e) :
        m < n /\ e[m] = d[i] /\ e[n] = d[j]

SecondMergeDone == run = 2 /\ mpc = "done" /\ first_run.pc = "done"

\* C6 as stated: the second merge of the same directory with the same
\* toggles leaves the same output as the first, whatever the two enumeration
\* orders are.
C6_AsStated == SecondMergeDone => out_file = first_run.out

\* C6 (amended): the second merge leaves the same output as the first
\* provided the artifacts that share an ordering key (or have none, key 0)
\* are enumerated in the same relative order in both runs; the order in which
\* artifacts of different keys are enumerated does not matter.
C6_Idempotent ==
  (SecondMergeDone /\ TiesInSameOrder(first_run.dir, csv_dir))
     => out_file = first_run.out

\* A second merge under another enumeration that keeps the tied files in
\* order, with rows written from both files.
C6_Witness ==
  /\ SecondMergeDone
  /\ csv_dir # first_run.dir
  /\ TiesInSameOrder(first_run.dir, csv_dir)
  /\ Cardinality(Range(written_from)) = 2

\* C7: while the directory holds a malformed artifact, merge_csvs never
\* opens, creates or changes the file at out_path, writes no row, skips no
\* artifact and never returns normally; when it has aborted, the file at
\* out_path is as it was before the call.
C7_NoPartialOutput ==
  /\ (\E k \in 1..Len(csv_dir) : csv_dir[k].bad) =>
       /\ mpc \in {"start", "scan", "error"}
       /\ out_file = out_before
       /\ wrote = 0
       /\ written_from = <<>>
  /\ mpc = "error" =>
       /\ out_file = out_before
       /\ \E k \in 1..Len(csv_dir) : csv_dir[k].bad

\* The merge aborted on a malformed artifact that is last in merge order,
\* after a well-formed one with rows, and an older output file is still there.
C7_Witness ==
  /\ mpc = "error"
  /\ Len(csv_files) = 2
  /\ file_i = 2
  /\ csv_files[1].rows # <<>>
  /\ out_file = OldFile

DataColumns(line) == IF add_source_column THEN Tail(line) ELSE line

\* Blank: every character of every cell is whitespace.
Blank(row) == \A k \in 1..Len(row) : \A m \in 1..Len(row[k]) : row[k][m] = " "

Padded(row) == row \o [k \in 1..(GlobalWidth - Len(row)) |-> <<>>]

KeptRows(file) ==
  SelectSeq(file.rows, LAMBDA row : ~(drop_empty_rows /\ Blank(row)))

RECURSIVE ExpectedRows(_)
ExpectedRows(n) ==
  IF n = 0 THEN <<>>
  ELSE ExpectedRows(n - 1) \o
       [r \in 1..Len(KeptRows(csv_files[n])) |-> Padded(KeptRows(csv_files[n])[r])]

\* C10: when merge_csvs returns, the data columns of the output are the rows
\* of the artifacts, artifact after artifact in sorted order and in original
\* row order, without exactly the blank rows when drop_empty_rows is set,
\* each row followed by empty strings up to W and never cut.
C10_RowsPreserved ==
  mpc = "done" =>
    /\ Len(csv_files) = Len(csv_dir)
    /\ Range(csv_files) = Range(csv_dir)
    /\ \A i \in 1..Len(csv_files) : \A j \in 1..Len(csv_files) :
         i < j => natural_key(csv_files[i].name) <= natural_key(csv_files[j].name)
    /\ [i \in 1..Len(out_file.rows) |-> DataColumns(out_file.rows[i])]
         = ExpectedRows(Len(csv_files))

\* A finished merge of two artifacts, enumerated against their key order,
\* that kept a row with a blank cell and dropped a blank row.
C10_Witness ==
  /\ mpc = "done"
  /\ drop_empty_rows
  /\ Len(csv_dir) = 2
  /\ natural_key(csv_dir[1].name) > natural_key(csv_dir[2].name)
  /\ wrote >= 3
  /\ \E k \in 1..2 : Len(KeptRows(csv_dir[k])) < Len(csv_dir[k].rows)
  /\ \E i \in 1..Len(out_file.rows) :
       DataColumns(out_file.rows[i]) = <<TextX, TextB, TextE, TextE>>

\* C6 as stated, for directories whose artifacts all lack an ordering key.
C6_KeylessInstance ==
  (SecondMergeDone /\ \A k \in 1..Len(csv_dir) :
      ~IsDigit(csv_dir[k].name[Len(csv_dir[k].name) - Len(CsvExt)]))
    => out_file = first_run.out

====
